---- MODULE Spec2Model ----
(***************************************************************************)
(* The public API of ucp (src/ucp/public_api.py): the module global _ctx,  *)
(* the lazy accessor _get_ctx and the functions init, create_listener,     *)
(* create_endpoint, progress, get_ucp_worker, get_config and reset.        *)
(*                                                                         *)
(* core.ApplicationContext and core.get_config live in ucp/_libs/core,     *)
(* which is not among the sources at hand; what the model needs of them    *)
(* (the table of pending connects, the bound ports, the effective          *)
(* configuration) follows the written specification.                       *)
(***************************************************************************)
EXTENDS Integers, Sequences, FiniteSets, TLC

\* ------------------------------------------------------------------ bounds
MaxCtx == 2          \* ApplicationContext objects constructed in one run
MaxOps == 2          \* create_endpoint coroutines made in one run
MaxListeners == 2    \* Listener objects created in one run
MaxConns == 1        \* inbound connections that reach one listener

\* ------------------------------------------------------------- value sets
Keys == {"TLS", "NET_DEVICES"}          \* option names
Values == {"a"}                         \* values of explicit options
EnvValue == "e"                         \* value of a variable of os.environ
BuiltIn == "d"                          \* the engine's built-in value
Ports == {9000}                         \* explicit listening ports
EnginePort == 9001                      \* port the engine picks for port=None
Addrs == {"reachable", "unreachable"}   \* peers of an outbound connect

EmptyMap == [k \in {} |-> BuiltIn]
OptionMaps == UNION {[D -> Values] : D \in SUBSET Keys}
EnvMaps == UNION {[D -> {EnvValue}] : D \in SUBSET Keys}

\* the environment and the explicit options of the runs that exercise the
\* whole API (Spec); SpecOptions ranges over all of EnvMaps and OptionMaps
ApiEnviron == [k \in {"TLS"} |-> EnvValue]
ApiOptions == {EmptyMap, [k \in {"TLS"} |-> "a"]}

None == 0            \* Python's None for _ctx and port; contexts are 1, 2, ...

VARIABLES
    _ctx,        \* the module global: None or the live ApplicationContext
    nctx,        \* number of ApplicationContext objects constructed so far
    ctxOptions,  \* the options the newest ApplicationContext was given
    environ,     \* os.environ
    environ0,    \* os.environ at process start
    ops,         \* create_endpoint coroutines: the context the connect is
                 \* registered on, the peer, the state of the connect and
                 \* what the await has delivered to the coroutine
    listeners,   \* Listener objects created so far: context, port, whether
                 \* the caller still holds it, connections arrived and
                 \* accepted, invocations of the callback
    nreleased,   \* number of contexts a reset has taken out of _ctx
    last         \* the latest call: its name, arguments and outcome

vars == <<_ctx, nctx, ctxOptions, environ, environ0, ops, listeners, nreleased,
          last>>

\* ---------------------------------------------------------------- helpers
\* `del options[k]`
DelKey(m, k) == [x \in (DOMAIN m) \ {k} |-> m[x]]

\* the loop skips every variable of the environment but one
DelEnvKeysFirstOnly(m, envKeys) ==
    IF envKeys = {} \/ (DOMAIN m) \cap envKeys = {} THEN m
    ELSE DelKey(m, CHOOSE x \in (DOMAIN m) \cap envKeys : TRUE)

\* the loop of init: for k in os.environ.keys(): if k in options: del options[k]
RECURSIVE DelEnvKeys(_, _)
DelEnvKeys(m, envKeys) ==
    IF envKeys = {} THEN m
    ELSE LET k == CHOOSE x \in envKeys : TRUE
         IN DelEnvKeys(IF k \in DOMAIN m THEN DelKey(m, k) ELSE m, envKeys \ {k})

\* the dict `options` as init hands it to core.ApplicationContext
ResolvedOptions(opts, env, env_takes_precedence) ==
    IF env_takes_precedence THEN DelEnvKeys(opts, DOMAIN env) ELSE opts

\* the caller's dict after a successful init: the deletions are made in the
\* very object the caller passed
OptionsAfterInit(opts, env, env_takes_precedence) ==
    ResolvedOptions(opts, env, env_takes_precedence)

\* init exports the explicit options to the environment
EnvironExported(env, opts) ==
    [k \in (DOMAIN env) \cup (DOMAIN opts) |->
        IF k \in DOMAIN opts THEN opts[k] ELSE env[k]]

\* what init does to os.environ: it only reads its keys
EnvironAfterInit(env, opts) == env

\* the effective configuration of the engine for explicit options o under
\* environment env: an explicit option wins, then the environment, then the
\* built-in value
EffectiveConfig(o, env) ==
    [k \in Keys |-> IF k \in DOMAIN o THEN o[k]
                    ELSE IF k \in DOMAIN env THEN env[k] ELSE BuiltIn]

\* core.get_config(): the static query, no explicit options
core_get_config(env) == EffectiveConfig(EmptyMap, env)

\* ApplicationContext.get_config() of a context constructed with options o
ctx_get_config(o, env) == EffectiveConfig(o, env)

\* the record of a call: its name, _ctx before it, how it ended, the context
\* it used or returned, the dict passed as `options` before and after the
\* call, env_takes_precedence, the mapping returned and the bool returned
Call(op, pre, result, ctx, arg, argAfter, etp, config, made) ==
    [op |-> op, pre |-> pre, result |-> result, ctx |-> ctx, arg |-> arg,
     argAfter |-> argAfter, etp |-> etp, config |-> config, made |-> made,
     port |-> None]

\* a call that takes no options and returns neither a mapping nor a bool
Plain(op, pre, result, ctx) ==
    Call(op, pre, result, ctx, EmptyMap, EmptyMap, FALSE, EmptyMap, FALSE)

\* ------------------------------------------------------------------- Init
\* the state after import: _ctx = None, nothing constructed
Start(envs) ==
    /\ _ctx = None
    /\ nctx = 0
    /\ ctxOptions = EmptyMap
    /\ environ \in envs
    /\ environ0 = environ
    /\ ops = <<>>
    /\ listeners = <<>>
    /\ nreleased = 0
    /\ last = Plain("start", None, "ok", None)

Init == Start({ApiEnviron})

InitOptions == Start(EnvMaps)

\* -------------------------------------------------------------- _get_ctx
\* `if _ctx is None`
IsUninitialized(c) == c = None

\* _get_ctx hands out whatever _ctx holds and constructs nothing
GetCtxIdNoCreate(c, n) == c

\* the context _get_ctx returns: the live one, or a newly constructed one
\* _get_ctx constructs a context at every call, live context or not
GetCtxIdAlwaysNew(c, n) == n + 1

GetCtxId(c, n) == IF IsUninitialized(c) THEN n + 1 ELSE c

\* _get_ctx constructs the context with the options of the one before it
GetCtxOptionsStale(c, o) == o

\* the options of the context _get_ctx returns: core.ApplicationContext()
\* is constructed without options
GetCtxOptions(c, o) == IF IsUninitialized(c) THEN EmptyMap ELSE o

\* a new context can still be constructed within the bound
CanGetCtx == ~IsUninitialized(_ctx) \/ nctx < MaxCtx

\* the assignments of _get_ctx
GetCtxEffect ==
    /\ _ctx' = GetCtxId(_ctx, nctx)
    /\ nctx' = IF _ctx' = _ctx THEN nctx ELSE nctx + 1
    /\ ctxOptions' = GetCtxOptions(_ctx, ctxOptions)

_get_ctx ==
    /\ CanGetCtx
    /\ GetCtxEffect
    /\ last' = Plain("_get_ctx", _ctx, "ok", GetCtxId(_ctx, nctx))
    /\ UNCHANGED <<environ, environ0, ops, listeners, nreleased>>

\* ------------------------------------------------------------------ init
\* init lacks the check and overwrites a live context
InitNeverFails(c) == FALSE

\* init tests `_ctx is None` where it should test `_ctx is not None`
InitFailsInverted(c) == IsUninitialized(c)

\* init deletes the keys before it looks at _ctx
OptionsDeletedFirst(opts, env, env_takes_precedence) ==
    ResolvedOptions(opts, env, env_takes_precedence)

\* the caller's dict after an init that raised: the raise comes before the
\* loop that deletes
OptionsAfterFailedInit(opts, env, env_takes_precedence) == opts

\* `if _ctx is not None: raise RuntimeError(...)`
InitFails(c) == ~IsUninitialized(c)

init(opts, env_takes_precedence) ==
    IF InitFails(_ctx)
    THEN /\ last' = Call("init", _ctx, "AlreadyInitialized", _ctx, opts,
                         OptionsAfterFailedInit(opts, environ, env_takes_precedence),
                         env_takes_precedence, EmptyMap, FALSE)
         /\ UNCHANGED <<_ctx, nctx, ctxOptions, environ, environ0, ops, listeners,
                      nreleased>>
    ELSE /\ nctx < MaxCtx
         /\ _ctx' = nctx + 1
         /\ nctx' = nctx + 1
         /\ ctxOptions' = ResolvedOptions(opts, environ, env_takes_precedence)
         /\ environ' = EnvironAfterInit(environ, opts)
         /\ last' = Call("init", _ctx, "ok", nctx + 1, opts,
                         OptionsAfterInit(opts, environ, env_takes_precedence),
                         env_takes_precedence, EmptyMap, FALSE)
         /\ UNCHANGED <<environ0, ops, listeners, nreleased>>

\* ------------------------------------------------------ create_listener
\* ports held by the Listener objects that are still alive
\* every port a listener was ever bound to: a released port stays taken
BoundPortsEver == {listeners[i].port : i \in DOMAIN listeners}

BoundPorts == {listeners[i].port : i \in {j \in DOMAIN listeners : listeners[j].live}}

\* the port ApplicationContext.create_listener binds: the one asked for, or
\* for port=None the engine's own choice
PortToBind(port) == IF port = None THEN EnginePort ELSE port

\* the record of a create_listener call with its port argument
Listen(pre, result, ctx, port) ==
    [Plain("create_listener", pre, result, ctx) EXCEPT !.port = port]

create_listener(port) ==
    /\ CanGetCtx
    /\ GetCtxEffect
    /\ IF PortToBind(port) \in BoundPorts
       THEN /\ last' = Listen(_ctx, "BindError", _ctx', port)
            /\ UNCHANGED listeners
       ELSE /\ Len(listeners) < MaxListeners
            /\ listeners' = Append(listeners,
                   [ctx |-> _ctx', port |-> PortToBind(port), live |-> TRUE,
                    arrived |-> 0, accepted |-> 0, calls |-> 0])
            /\ last' = Listen(_ctx, "ok", _ctx', port)
    /\ UNCHANGED <<environ, environ0, ops, nreleased>>

\* ------------------------------------------------------ create_endpoint
\* calling the async function makes a coroutine object; no line of its body
\* has run yet
create_endpoint(addr) ==
    /\ Len(ops) < MaxOps
    /\ ops' = Append(ops, [ctx |-> None, addr |-> addr, st |-> "created",
                           out |-> "none"])
    /\ last' = Plain("create_endpoint", _ctx, "coroutine", None)
    /\ UNCHANGED <<_ctx, nctx, ctxOptions, environ, environ0, listeners, nreleased>>

\* the connect is attempted at registration: one to an unreachable peer fails
\* there and then
create_endpoint_run_sync(i) ==
    /\ ops[i].st = "created"
    /\ CanGetCtx
    /\ GetCtxEffect
    /\ ops' = [ops EXCEPT ![i].ctx = _ctx',
                          ![i].st = IF ops[i].addr = "reachable" THEN "pending"
                                    ELSE "failed"]
    /\ last' = Plain("create_endpoint_run", _ctx,
                     IF ops[i].addr = "reachable" THEN "ok" ELSE "ConnectError",
                     _ctx')
    /\ UNCHANGED <<environ, environ0, listeners, nreleased>>

\* the coroutine is suspended between the `_ctx is None` check and the
\* construction: it acts on the value _ctx had before the preceding call
create_endpoint_run_stale(i) ==
    /\ ops[i].st = "created"
    /\ IF last.pre = None
       THEN /\ nctx < MaxCtx
            /\ _ctx' = nctx + 1
            /\ nctx' = nctx + 1
            /\ ctxOptions' = EmptyMap
       ELSE /\ CanGetCtx
            /\ GetCtxEffect
    /\ ops' = [ops EXCEPT ![i].ctx = _ctx', ![i].st = "pending"]
    /\ last' = Plain("create_endpoint_run", _ctx, "ok", _ctx')
    /\ UNCHANGED <<environ, environ0, listeners, nreleased>>

\* the coroutine runs up to its await: _get_ctx(), then the context registers
\* the pending connect
create_endpoint_run(i) ==
    /\ ops[i].st = "created"
    /\ CanGetCtx
    /\ GetCtxEffect
    /\ ops' = [ops EXCEPT ![i].ctx = _ctx', ![i].st = "pending"]
    /\ last' = Plain("create_endpoint_run", _ctx, "ok", _ctx')
    /\ UNCHANGED <<environ, environ0, listeners, nreleased>>

\* -------------------------------------------------------------- progress
\* the pending connects registered on context c
PendingOn(c) == {i \in DOMAIN ops : ops[i].st = "pending" /\ ops[i].ctx = c}

\* the outcome of a connect the worker has finished
Resolved(addr) == IF addr = "reachable" THEN "completed" ELSE "failed"

\* the inbound connections waiting on listener i for a progress of context c:
\* only a listener the caller still holds, created through c, accepts
Waiting(i, c) ==
    IF listeners[i].live /\ listeners[i].ctx = c
    THEN listeners[i].arrived - listeners[i].accepted ELSE 0

\* how many of them one progress of context c may accept, listener by listener
AcceptChoices(c) ==
    {A \in [DOMAIN listeners -> 0..MaxConns] :
        \A i \in DOMAIN listeners : A[i] <= Waiting(i, c)}

\* every accept invokes the callback twice
CallbacksTwice(k) == 2 * k

\* invocations of a listener's callback for k accepted connections
CallbacksFor(k) == k

\* progress reports work whatever the context did
ProgressReturnsTrue(made) == TRUE

\* `return _get_ctx().progress()`: the bool of the context, as it is
ProgressReturn(made) == made

\* progress gets the context and returns without driving its worker
progress_idle ==
    /\ CanGetCtx
    /\ GetCtxEffect
    /\ last' = Call("progress", _ctx, "ok", _ctx', EmptyMap, EmptyMap,
                    FALSE, EmptyMap, FALSE)
    /\ UNCHANGED <<environ, environ0, ops, listeners, nreleased>>

\* progress on the context _get_ctx returns: the worker finishes the connects
\* in S, a subset of the ones pending on that context, and accepts A[i] of
\* the connections waiting on listener i, invoking its callback for each
progress ==
    /\ CanGetCtx
    /\ GetCtxEffect
    /\ \E S \in SUBSET PendingOn(_ctx'), A \in AcceptChoices(_ctx') :
          /\ ops' = [i \in DOMAIN ops |->
                       IF i \in S THEN [ops[i] EXCEPT !.st = Resolved(ops[i].addr)]
                       ELSE ops[i]]
          /\ listeners' = [i \in DOMAIN listeners |->
                       [listeners[i] EXCEPT
                           !.accepted = @ + A[i],
                           !.calls = @ + CallbacksFor(A[i])]]
          /\ last' = Call("progress", _ctx, "ok", _ctx', EmptyMap, EmptyMap,
                          FALSE, EmptyMap,
                          ProgressReturn(S # {} \/ \E i \in DOMAIN A : A[i] > 0))
    /\ UNCHANGED <<environ, environ0, nreleased>>

\* the await of coroutine i returns: the Endpoint of a completed connect, or
\* the ConnectError of a failed one
create_endpoint_resume(i) ==
    /\ ops[i].st \in {"completed", "failed"}
    /\ ops[i].out = "none"
    /\ ops' = [ops EXCEPT ![i].out =
                  IF ops[i].st = "completed" THEN "Endpoint" ELSE "ConnectError"]
    /\ last' = Plain("create_endpoint_resume", _ctx,
                     IF ops[i].st = "completed" THEN "ok" ELSE "ConnectError",
                     ops[i].ctx)
    /\ UNCHANGED <<_ctx, nctx, ctxOptions, environ, environ0, listeners, nreleased>>

\* ------------------------------------------------------------- listeners
\* a peer connects to the port of listener i
connect_in(i) ==
    /\ listeners[i].live
    /\ listeners[i].arrived < MaxConns
    /\ listeners' = [listeners EXCEPT ![i].arrived = @ + 1]
    /\ last' = Plain("connect_in", _ctx, "ok", listeners[i].ctx)
    /\ UNCHANGED <<_ctx, nctx, ctxOptions, environ, environ0, ops, nreleased>>

\* the caller drops its last reference to listener i: the listening stops
release_listener(i) ==
    /\ listeners[i].live
    /\ listeners' = [listeners EXCEPT ![i].live = FALSE]
    /\ last' = Plain("release_listener", _ctx, "ok", listeners[i].ctx)
    /\ UNCHANGED <<_ctx, nctx, ctxOptions, environ, environ0, ops, nreleased>>

\* -------------------------------------------------------- get_ucp_worker
get_ucp_worker ==
    /\ CanGetCtx
    /\ GetCtxEffect
    /\ last' = Plain("get_ucp_worker", _ctx, "ok", _ctx')
    /\ UNCHANGED <<environ, environ0, ops, listeners, nreleased>>

\* ------------------------------------------------------------ get_config
\* get_config asks the context whatever _ctx holds
ConfigAlwaysFromCtx(c) == TRUE

\* the `else` branch of get_config: _ctx is not None
ConfigFromCtx(c) == ~IsUninitialized(c)

get_config ==
    /\ IF ConfigFromCtx(_ctx)
       THEN /\ GetCtxEffect
            /\ last' = Call("get_config", _ctx, "ok", _ctx', EmptyMap, EmptyMap,
                            FALSE, ctx_get_config(ctxOptions', environ), FALSE)
       ELSE /\ last' = Call("get_config", _ctx, "ok", None, EmptyMap, EmptyMap,
                            FALSE, core_get_config(environ), FALSE)
            /\ UNCHANGED <<_ctx, nctx, ctxOptions>>
    /\ UNCHANGED <<environ, environ0, ops, listeners, nreleased>>

\* ----------------------------------------------------------------- reset
\* reset leaves the global as it is
ResetKeepsCtx(c) == c

\* reset marks the connects pending on the released context cancelled
reset_cancels ==
    /\ _ctx' = None
    /\ ops' = [i \in DOMAIN ops |->
                 IF i \in PendingOn(_ctx) THEN [ops[i] EXCEPT !.st = "cancelled"]
                 ELSE ops[i]]
    /\ nreleased' = IF _ctx # None THEN nreleased + 1 ELSE nreleased
    /\ last' = Plain("reset", _ctx, "ok", None)
    /\ UNCHANGED <<nctx, ctxOptions, environ, environ0, listeners>>

\* the value reset assigns to _ctx
ResetCtx(c) == None

\* reset assigns _ctx and touches nothing else: the context object, its
\* pending connects and its listeners are left to whoever still refers to them
reset ==
    /\ _ctx' = ResetCtx(_ctx)
    /\ nreleased' = IF _ctx # None /\ _ctx' = None THEN nreleased + 1 ELSE nreleased
    /\ last' = Plain("reset", _ctx, "ok", None)
    /\ UNCHANGED <<nctx, ctxOptions, environ, environ0, ops, listeners>>

\* ------------------------------------------------------------------ Next
\* the calls that involve no outbound connect
Api(optionSet) ==
    \/ \E o \in optionSet, p \in BOOLEAN : init(o, p)
    \/ _get_ctx
    \/ \E port \in Ports \cup {None} : create_listener(port)
    \/ progress
    \/ get_ucp_worker
    \/ get_config
    \/ reset

Next ==
    \/ Api(ApiOptions)
    \/ \E addr \in Addrs : create_endpoint(addr)
    \/ \E i \in DOMAIN ops : create_endpoint_run(i)

NextOptions == Api(OptionMaps)

\* the calls and events around outbound connects
Connects ==
    \/ \E addr \in Addrs : create_endpoint(addr)
    \/ \E i \in DOMAIN ops : create_endpoint_run(i)
    \/ \E i \in DOMAIN ops : create_endpoint_resume(i)
    \/ progress

\* the calls and events around listeners
Listens ==
    \/ \E port \in Ports \cup {None} : create_listener(port)
    \/ \E i \in DOMAIN listeners : connect_in(i)
    \/ \E i \in DOMAIN listeners : release_listener(i)
    \/ progress

NextConnect ==
    \/ Connects
    \/ init(EmptyMap, FALSE)
    \/ reset

NextListen ==
    \/ Listens
    \/ init(EmptyMap, FALSE)
    \/ reset

NextIO ==
    \/ \E port \in Ports \cup {None} : create_listener(port)
    \/ \E i \in DOMAIN listeners : connect_in(i)
    \/ \E addr \in Addrs : create_endpoint(addr)
    \/ \E i \in DOMAIN ops : create_endpoint_run(i)
    \/ progress

NextNoReset ==
    \/ Connects
    \/ init(EmptyMap, FALSE)

\* every call of the API, one environment, two option dicts
Spec == Init /\ [][Next]_vars

\* every environment and every option dict, no outbound connect
SpecOptions == InitOptions /\ [][NextOptions]_vars

\* outbound connects from registration to delivery, init and reset
SpecConnect == Init /\ [][NextConnect]_vars

\* listeners, inbound connections and callbacks, init and reset
SpecListen == Init /\ [][NextListen]_vars

\* connects and listeners together on one context
SpecIO == Init /\ [][NextIO]_vars

\* coroutines interleaved with progress in a run that never calls reset
SpecNoReset == Init /\ [][NextNoReset]_vars

\* a progress call in which the worker finishes connect i
ProgressResolves(i) ==
    /\ i \in DOMAIN ops
    /\ ops[i].st = "pending"
    /\ progress
    /\ ops'[i].st # "pending"

\* the caller keeps calling progress and the engine finishes a connect it is
\* driven for; the event loop resumes a coroutine whose await is resolved
Fairness ==
    \A i \in 1..MaxOps :
       /\ WF_vars(ProgressResolves(i))
       /\ WF_vars(i \in DOMAIN ops /\ create_endpoint_resume(i))

\* SpecNoReset with a caller that keeps pumping progress
SpecLive == SpecNoReset /\ Fairness

\* ================================================================ claims

\* C1: init succeeds exactly when _ctx is None at the call and constructs the
\* one live context; with a context live, however it was created, it fails
\* with AlreadyInitialized and leaves that context in place; the global holds
\* no context or the newest one, never two
C1_InitIffUninitialized ==
    /\ _ctx \in {None, nctx}
    /\ last.op = "init" =>
          /\ (last.result = "ok") <=> (last.pre = None)
          /\ last.result = "ok" => _ctx # None /\ _ctx = nctx /\ last.ctx = _ctx
          /\ last.result # "ok" =>
                /\ last.result = "AlreadyInitialized"
                /\ _ctx # None /\ _ctx = last.pre

\* C1 witness: init fails on the second context of the run, the one made
\* after a reset
C1_Witness ==
    last.op = "init" /\ last.result = "AlreadyInitialized" /\ nctx = 2

\* C2: _get_ctx never fails; with _ctx None it constructs a context with
\* empty options, whatever the options of the session before; with a context
\* live it returns that instance, its options untouched, and constructs
\* nothing
C2_GetCtxStep ==
    last'.op = "_get_ctx" =>
       /\ last'.result = "ok" /\ _ctx' # None /\ last'.ctx = _ctx'
       /\ IF _ctx = None
          THEN _ctx' = nctx + 1 /\ nctx' = nctx + 1 /\ ctxOptions' = EmptyMap
          ELSE _ctx' = _ctx /\ nctx' = nctx /\ ctxOptions' = ctxOptions

C2_GetCtxIdempotent == [][C2_GetCtxStep]_vars

\* C2 witness: _get_ctx called with _ctx None after an earlier context was
\* released made the second context, with empty options
C2_Witness ==
    last.op = "_get_ctx" /\ last.pre = None /\ nctx = 2 /\ _ctx = 2
    /\ ctxOptions = EmptyMap

\* C3: reset never fails and leaves _ctx None; called with _ctx None it
\* changes nothing
C3_ResetStep ==
    last'.op = "reset" =>
       /\ last'.result = "ok" /\ _ctx' = None
       /\ _ctx = None =>
             UNCHANGED <<_ctx, nctx, ctxOptions, environ, ops, listeners>>

C3_ResetToUninitialized == [][C3_ResetStep]_vars

\* C3 witness: a reset called with _ctx already None, after a context had
\* been constructed and released
C3_Witness ==
    last.op = "reset" /\ last.pre = None /\ nctx = 1 /\ _ctx = None

\* C4, as claimed: reset leaves every connect that was pending on the
\* released context cancelled
C4_ResetStep ==
    last'.op = "reset" => \A i \in PendingOn(_ctx) : ops'[i].st = "cancelled"

C4_ResetCancelsPending == [][C4_ResetStep]_vars

\* C5: get_config constructs nothing and changes no context; with _ctx None
\* it returns core.get_config(), with a context live that context's
\* configuration
C5_GetConfigStep ==
    last'.op = "get_config" =>
       /\ last'.result = "ok"
       /\ _ctx' = _ctx /\ nctx' = nctx /\ ctxOptions' = ctxOptions
       /\ last'.config = IF _ctx = None THEN core_get_config(environ)
                         ELSE ctx_get_config(ctxOptions, environ)

C6_ConfigDefaultsAfterReset ==
    (last.op = "get_config" /\ last.pre = None) =>
        last.config = core_get_config(environ0)

\* C6 witness: get_config with _ctx None after a session whose context was
\* given an option that differs from the default
C6_Witness ==
    /\ last.op = "get_config" /\ last.pre = None /\ nctx >= 1
    /\ ctxOptions # EmptyMap
    /\ ctx_get_config(ctxOptions, environ0) # core_get_config(environ0)

\* C7: the options the context gets from a successful init: with
\* env_takes_precedence the explicit options less the keys os.environ has,
\* values kept; without it the explicit options as passed
C7_ResolvedOptions ==
    (last.op = "init" /\ last.result = "ok") =>
        ctxOptions = IF last.etp
                     THEN [k \in (DOMAIN last.arg) \ (DOMAIN environ) |-> last.arg[k]]
                     ELSE last.arg

\* C7 witness: env_takes_precedence with one key of the options in the
\* environment and one not
C7_Witness ==
    /\ last.op = "init" /\ last.result = "ok" /\ last.etp
    /\ (DOMAIN last.arg) \cap (DOMAIN environ) # {}
    /\ (DOMAIN last.arg) \ (DOMAIN environ) # {}
    /\ DOMAIN ctxOptions = (DOMAIN last.arg) \ (DOMAIN environ)

\* C8, as claimed: the dict the caller passed to init holds after the call
\* what it held before
C8_CallerOptionsUnchanged ==
    last.op = "init" => last.argAfter = last.arg

\* C9, as claimed: progress and get_ucp_worker called with _ctx None signal
\* NotInitialized and leave _ctx None
C9_NotInitialized ==
    (last.op \in {"progress", "get_ucp_worker"} /\ last.pre = None) =>
        (last.result = "NotInitialized" /\ _ctx = None)

\* C9, amended: progress and get_ucp_worker go through _get_ctx: called with
\* _ctx None they construct a context with empty options and succeed on it,
\* called with a context live they use that one
C9_AutoCreate ==
    last.op \in {"progress", "get_ucp_worker"} =>
       /\ last.result = "ok" /\ _ctx # None /\ last.ctx = _ctx
       /\ last.pre = None => (_ctx = nctx /\ ctxOptions = EmptyMap)
       /\ last.pre # None => _ctx = last.pre

\* C9 witness: progress called with _ctx None after a reset left the second
\* context live
C9_Witness ==
    last.op = "progress" /\ last.pre = None /\ _ctx = 2 /\ last.result = "ok"

\* C10: create_listener called with _ctx None constructs the context with
\* empty options, the listener it returns belongs to that context, _ctx is
\* not None when it returns, and an init called next fails with
\* AlreadyInitialized
C10_ListenerStep ==
    /\ last'.op = "create_listener" =>
          /\ _ctx' # None /\ last'.ctx = _ctx'
          /\ _ctx = None =>
                (_ctx' = nctx + 1 /\ nctx' = nctx + 1 /\ ctxOptions' = EmptyMap)
          /\ last'.result = "ok" =>
                /\ Len(listeners') = Len(listeners) + 1
                /\ listeners'[Len(listeners')].ctx = _ctx'
    /\ (last.op = "create_listener" /\ last'.op = "init") =>
          last'.result = "AlreadyInitialized"

C10_ListenerAutoCreates == [][C10_ListenerStep]_vars

\* C10 witness: after a reset, create_listener called with _ctx None
\* returned a listener of the second context
C10_Witness ==
    /\ last.op = "create_listener" /\ last.pre = None /\ last.result = "ok"
    /\ _ctx = 2 /\ listeners # <<>> /\ listeners[Len(listeners)].ctx = 2

\* the states a pending connect ends in
Terminal == {"completed", "failed", "cancelled"}

\* C11: a connect becomes pending at most once, from its registration; it
\* leaves pending only in a step of progress, on the context it is
\* registered on, for a terminal state; a terminal state is never left, so
\* the completion slot is resolved at most once, whatever progress and reset
\* calls follow
C11_OpStep ==
    \A i \in DOMAIN ops :
       /\ ops[i].st \in Terminal => ops'[i].st = ops[i].st
       /\ (ops[i].st = "pending" /\ ops'[i].st # "pending") =>
             /\ last'.op = "progress"
             /\ ops'[i].st \in Terminal
             /\ ops[i].ctx = _ctx'
       /\ (ops[i].st # "pending" /\ ops'[i].st = "pending") =>
             ops[i].st = "created"

C11_ResolvedOnce == [][C11_OpStep]_vars

\* C11 witness: after a reset, a progress has left one connect resolved and
\* another still pending
C11_Witness ==
    /\ last.op = "progress" /\ nreleased >= 1
    /\ \E i, j \in DOMAIN ops :
          ops[i].st \in {"completed", "failed"} /\ ops[j].st = "pending"

\* C12: in a run without reset whose caller keeps calling progress, a pending
\* connect to a reachable peer is resolved by a progress call that returns
\* True, and its coroutine gets the Endpoint
C12_ResolvingProgressReturnsTrue ==
    \A i \in DOMAIN ops :
       (ops[i].st = "pending" /\ ops'[i].st = "completed") =>
           (last'.op = "progress" /\ last'.made)

C12_ConnectCompletes ==
    /\ [][C12_ResolvingProgressReturnsTrue]_vars
    /\ \A i \in 1..MaxOps :
          (i \in DOMAIN ops /\ ops[i].st = "pending" /\ ops[i].addr = "reachable")
             ~> (i \in DOMAIN ops /\ ops[i].st = "completed"
                 /\ ops[i].out = "Endpoint")

\* C12 witness: the one connect of the run, to a reachable peer, has
\* completed and its coroutine has got the Endpoint
C12_Witness ==
    /\ Len(ops) = 1 /\ ops[1].addr = "reachable"
    /\ ops[1].st = "completed" /\ ops[1].out = "Endpoint"

\* C13: a progress call on a context with no pending connect and no inbound
\* connection waiting returns False, resolves nothing and invokes no
\* callback; a progress call that returns True has resolved a connect or
\* accepted a connection
C13_ProgressStep ==
    last'.op = "progress" =>
       /\ (PendingOn(_ctx') = {} /\ \A l \in DOMAIN listeners : Waiting(l, _ctx') = 0)
             => (~last'.made /\ ops' = ops /\ listeners' = listeners)
       /\ last'.made =>
             \/ \E i \in DOMAIN ops : ops[i].st = "pending" /\ ops'[i].st \in Terminal
             \/ \E l \in DOMAIN listeners :
                   /\ listeners'[l].accepted > listeners[l].accepted
                   /\ listeners'[l].calls > listeners[l].calls

C13_ProgressFalseWhenIdle == [][C13_ProgressStep]_vars

\* C13 witness: a progress call returned False on a context that has a
\* listener and a resolved connect, with nothing left to do
C13_Witness ==
    /\ last.op = "progress" /\ ~last.made /\ _ctx # None
    /\ PendingOn(_ctx) = {}
    /\ listeners # <<>> /\ \A l \in DOMAIN listeners : Waiting(l, _ctx) = 0
    /\ \E i \in DOMAIN ops : ops[i].st \in Terminal

\* C14: the callback of a listener has been invoked once for each connection
\* the listener accepted; its invocations happen in progress steps only, as
\* many as that step accepts, on a listener the caller still holds and whose
\* context is the one progress drives
C14_CallbackStep ==
    \A l \in DOMAIN listeners :
       listeners'[l].calls # listeners[l].calls =>
          /\ last'.op = "progress"
          /\ listeners[l].live /\ listeners[l].ctx = _ctx'
          /\ listeners'[l].calls - listeners[l].calls
                = listeners'[l].accepted - listeners[l].accepted

C15_FailStep ==
    /\ last'.result = "ConnectError" => last'.op = "create_endpoint_resume"
    /\ \A i \in DOMAIN ops :
          /\ (ops[i].st = "created" /\ ops'[i].st # "created") =>
                /\ last'.op = "create_endpoint_run" /\ last'.result = "ok"
                /\ ops'[i].st = "pending" /\ ops'[i].out = "none"
          /\ (ops[i].st # "failed" /\ ops'[i].st = "failed") =>
                /\ last'.op = "progress" /\ last'.result = "ok"
                /\ ops[i].st = "pending"
                /\ _ctx' # None /\ _ctx' = ops[i].ctx
                /\ ops'[i].out = "none"
                /\ \A j \in DOMAIN ops \ {i} :
                      /\ ops'[j].out = ops[j].out
                      /\ \/ ops'[j].st = ops[j].st
                         \/ ops[j].st = "pending" /\ ops'[j].st = Resolved(ops[j].addr)
          /\ (ops[i].out = "none" /\ ops'[i].out = "ConnectError") =>
                /\ last'.op = "create_endpoint_resume"
                /\ last'.result = "ConnectError"
                /\ ops[i].st = "failed"
                /\ _ctx' = _ctx
                /\ \A j \in DOMAIN ops \ {i} : ops'[j] = ops[j]

C15_ConnectErrorOnlyInProgress == [][C15_FailStep]_vars

\* C15 witness: the coroutine of a failed connect got its ConnectError while
\* the context is live and another connect is still pending on it
C15_Witness ==
    /\ last.op = "create_endpoint_resume" /\ last.result = "ConnectError"
    /\ _ctx # None
    /\ \E i, j \in DOMAIN ops :
          /\ ops[i].st = "failed" /\ ops[i].out = "ConnectError"
          /\ ops[j].st = "pending" /\ ops[j].ctx = _ctx

\* C16: a listener stops listening only when its holder releases it, and never
\* listens again; create_listener fails with BindError exactly when a listener
\* that is still held is bound to the port, so a port whose listener was
\* released binds again, and a successful call adds one live listener on it
C16_ListenerStep ==
    /\ Len(listeners') >= Len(listeners)
    /\ \A i \in DOMAIN listeners :
          /\ listeners'[i].port = listeners[i].port
          /\ listeners'[i].live => listeners[i].live
          /\ listeners[i].live /\ ~listeners'[i].live
                => last'.op = "release_listener"
          /\ listeners'[i].accepted > listeners[i].accepted => listeners[i].live
    /\ last'.op = "create_listener" =>
          /\ last'.result \in {"ok", "BindError"}
          /\ last'.result = "BindError" <=>
                \E i \in DOMAIN listeners :
                    listeners[i].live /\ listeners[i].port = PortToBind(last'.port)
          /\ last'.result = "BindError" => listeners' = listeners
          /\ last'.result = "ok" =>
                /\ Len(listeners') = Len(listeners) + 1
                /\ listeners'[Len(listeners')].live
                /\ listeners'[Len(listeners')].port = PortToBind(last'.port)
    /\ last'.op # "create_listener" => Len(listeners') = Len(listeners)

C16_ListenerLifetime == [][C16_ListenerStep]_vars

\* a listener has just been bound to a port that a released listener held
C16_Witness ==
    /\ last.op = "create_listener"
    /\ last.result = "ok"
    /\ Len(listeners) >= 2
    /\ listeners[Len(listeners)].live
    /\ \E i \in 1..(Len(listeners) - 1) :
          ~listeners[i].live /\ listeners[i].port = listeners[Len(listeners)].port

\* C17: a listener does not outlive its context: every listener that still
\* listens and holds its port was created through the context _ctx refers to
C17_ListenerDiesWithContext ==
    \A i \in DOMAIN listeners : listeners[i].live => listeners[i].ctx = _ctx

\* the calls that go through _get_ctx or construct the context themselves
Constructing == {"init", "_get_ctx", "create_listener", "create_endpoint_run",
                 "progress", "get_ucp_worker"}

\* C18: a context, and with it its worker, is constructed only by init or an
\* auto-creating call made with _ctx None, one at a time; reset and get_config
\* construct none, none exists before the first such call, and the contexts
\* constructed so far are at most one more than the contexts reset released
C18_WorkerStep ==
    /\ nctx' >= nctx
    /\ nctx' # nctx =>
          /\ _ctx = None /\ last'.pre = None
          /\ nctx' = nctx + 1 /\ _ctx' = nctx'
          /\ last'.op \in Constructing
    /\ last'.op \in {"reset", "get_config"} => nctx' = nctx

C18_WorkerOnlyWhenUninitialized ==
    /\ nctx = 0
    /\ [](nctx <= nreleased + 1)
    /\ [][C18_WorkerStep]_vars

\* C18 witness: after one reset an auto-creating call made with _ctx None has
\* constructed the second context
C18_Witness ==
    /\ last.op = "get_ucp_worker" /\ last.pre = None
    /\ nctx = 2 /\ nreleased = 1 /\ _ctx = 2

\* C19: an init that fails with AlreadyInitialized leaves the live context,
\* its options, the environment, the connects and the listeners as they were,
\* and the caller's options dict holds what it held, also with
\* env_takes_precedence and keys that os.environ has
C19_FailedInitStep ==
    (last'.op = "init" /\ last'.result = "AlreadyInitialized") =>
       /\ _ctx # None
       /\ UNCHANGED <<_ctx, nctx, ctxOptions, environ, ops, listeners, nreleased>>
       /\ last'.ctx = _ctx
       /\ last'.argAfter = last'.arg

C19_FailedInitChangesNothing == [][C19_FailedInitStep]_vars

\* C19 witness: init failed with env_takes_precedence and an options dict
\* that shares a key with os.environ, on a context whose options differ from
\* the ones passed
C19_Witness ==
    /\ last.op = "init" /\ last.result = "AlreadyInitialized" /\ last.etp
    /\ (DOMAIN last.arg) \cap (DOMAIN environ) # {}
    /\ last.argAfter = last.arg
    /\ _ctx # None /\ ctxOptions # last.arg

\* C20: in a run without reset, however the create_endpoint coroutines and
\* the progress calls interleave, at most one context is constructed and
\* every coroutine that has reached its await registered its connect on that
\* one context, the one _ctx refers to
C20_OneContextForAllCoroutines ==
    /\ nctx <= 1
    /\ \A i \in DOMAIN ops :
          ops[i].st # "created" =>
             (nctx = 1 /\ _ctx = 1 /\ ops[i].ctx = _ctx)

\* C20 witness: two coroutines registered on the one context, the second
\* after a progress call had resolved the connect of the first
C20_Witness ==
    /\ last.op = "create_endpoint_run" /\ last.pre = 1
    /\ nctx = 1 /\ Len(ops) = 2
    /\ \E i, j \in DOMAIN ops :
          /\ ops[i].st \in {"completed", "failed"}
          /\ ops[j].st = "pending"
          /\ ops[i].ctx = 1 /\ ops[j].ctx = 1

====
